---- MODULE Spec2Model ----
(***************************************************************************)
(* Model of the Lighthouse DOM analysis service.                           *)
(*                                                                         *)
(* Two variants of the POST /dom-analysis pipeline are modelled:           *)
(*   "CLI" : src/unnamed/part_000  (runLighthouseCLI, 60 s deadline)        *)
(*   "ENH" : src/server.js 1-342   (runLighthouseWithErrorCapture, 180 s)   *)
(*                                                                         *)
(* Text is a sequence of tokens (words); "nl" is a newline, "w" is white   *)
(* space.  A marker made of several words is a contiguous token sequence.  *)
(* Numbers that the code handles as fractions are kept in hundredths.      *)
(***************************************************************************)
EXTENDS Integers, Sequences, FiniteSets, TLC

VARIABLES variant, req

vars == <<variant, req>>

(***************************************************************************)
(* Bounds of the model                                                     *)
(***************************************************************************)
MaxChunks == 2     \* chunks one subprocess writes, stdout and stderr together
MaxTimeouts == 5   \* resource timeouts in a sampled error report

Variants == {"CLI", "ENH"}

(***************************************************************************)
(* Text helpers (String.prototype.includes / split / trim / substring)     *)
(***************************************************************************)
Min(a, b) == IF a <= b THEN a ELSE b
Max(a, b) == IF a >= b THEN a ELSE b

Includes(s, m) ==
  \E i \in 1..(Len(s) - Len(m) + 1) : SubSeq(s, i, i + Len(m) - 1) = m

HasTok(s, t) == \E i \in 1..Len(s) : s[i] = t

\* indexOf: 0 when absent (JS -1), else the 1-based first position
IndexOf(s, t) ==
  IF HasTok(s, t) THEN CHOOSE i \in 1..Len(s) : s[i] = t /\ \A j \in 1..(i-1) : s[j] # t
  ELSE 0

\* lastIndexOf: 0 when absent (JS -1), else the 1-based last position
LastIndexOf(s, t) ==
  IF HasTok(s, t) THEN CHOOSE i \in 1..Len(s) : s[i] = t /\ \A j \in (i+1)..Len(s) : s[j] # t
  ELSE 0

IsSpace(t) == t \in {"w", "nl"}

RECURSIVE TrimLeft(_)
TrimLeft(s) == IF s # <<>> /\ IsSpace(Head(s)) THEN TrimLeft(Tail(s)) ELSE s

RECURSIVE TrimRight(_)
TrimRight(s) ==
  IF s # <<>> /\ IsSpace(s[Len(s)]) THEN TrimRight(SubSeq(s, 1, Len(s) - 1)) ELSE s

Trim(s) == TrimRight(TrimLeft(s))

\* split('\n'): always at least one line; a trailing newline gives a last empty line
RECURSIVE SplitLines(_)
SplitLines(s) ==
  LET i == IndexOf(s, "nl") IN
  IF i = 0 THEN <<s>>
  ELSE <<SubSeq(s, 1, i - 1)>> \o SplitLines(SubSeq(s, i + 1, Len(s)))

RECURSIVE StripSpace(_)
StripSpace(s) ==
  IF s = <<>> THEN <<>>
  ELSE IF IsSpace(Head(s)) THEN StripSpace(Tail(s))
  ELSE <<Head(s)>> \o StripSpace(Tail(s))

(***************************************************************************)
(* JSON.parse on token text.  A document is "{" "}" (the empty object),    *)
(* "{" "b" "}" (an object holding the report members) or "{" "b" doc "}".  *)
(* White space between tokens is allowed; anything else is a SyntaxError.  *)
(***************************************************************************)
BodyToks == {"b", "b0"}

RECURSIVE IsDoc(_)
IsDoc(s) ==
  /\ Len(s) >= 2
  /\ s[1] = "{"
  /\ s[Len(s)] = "}"
  /\ LET inner == SubSeq(s, 2, Len(s) - 1) IN
       \/ inner = <<>>
       \/ (Len(inner) = 1 /\ inner[1] \in BodyToks)
       \/ /\ Len(inner) >= 3
          /\ inner[1] \in BodyToks
          /\ IsDoc(Tail(inner))

JsonParses(text) == IsDoc(StripSpace(text))

\* the empty object {}: no audits map
EmptyObject ==
  [kind |-> "object", audits |-> FALSE, dom |-> FALSE,
   nv |-> [t |-> "undef", v |-> 0], details |-> "missing", items |-> <<>>]


(***************************************************************************)
(* Diagnostic vocabulary.  HasWord(line, wd) is line.includes(wd) for a    *)
(* one-word marker: a token matches when it is the word or contains it.    *)
(***************************************************************************)
SubWord ==
  { <<"ERR:error", "error">>, <<"ImageElements:warn", "ImageElements">> }

HasWord(s, wd) == \E i \in 1..Len(s) : s[i] = wd \/ <<s[i], wd>> \in SubWord

RatioToks == {"69/86", "3/4"}      \* text matching (\d+)\/(\d+)
DurToks == {"5s"}                  \* text matching (\d+\.?\d*)[sm]

HasRatio(s) == \E i \in 1..Len(s) : s[i] \in RatioToks
FirstRatio(s) ==
  s[CHOOSE i \in 1..Len(s) : s[i] \in RatioToks /\ \A j \in 1..(i-1) : s[j] \notin RatioToks]

HasDur(s) == \E i \in 1..Len(s) : s[i] \in DurToks
FirstDur(s) ==
  s[CHOOSE i \in 1..Len(s) : s[i] \in DurToks /\ \A j \in 1..(i-1) : s[j] \notin DurToks]

NullImg == <<>>                    \* image_gathering_failures: null
ImgRatioMsg(r) == <<r, "images skipped - gathering budget exceeded">>
ImgPlainMsg == <<"Image gathering budget exceeded">>

ExcerptLen == 50                   \* substring(0, 50)

(***************************************************************************)
(* parseRealLighthouseErrors (variant CLI): one pass over the whole text   *)
(***************************************************************************)
EmptyRealErrors ==
  [push |-> 0, img |-> NullImg, timeouts |-> <<>>, rend |-> FALSE,
   raw |-> <<>>, warnings |-> <<>>, method |-> "CLI_REAL_CAPTURE"]

IsPushNodeLine(l) ==
  HasWord(l, "DOM.pushNodeByPathToFrontend") /\ (HasWord(l, "failed") \/ HasWord(l, "error"))

IsImageBudgetLine(l) ==
  /\ HasWord(l, "ImageElements:warn")
  /\ \/ HasWord(l, "Skipped extra details")
     \/ Includes(l, <<"gathering", "budget">>)
     \/ Includes(l, <<"Reached", "gathering", "budget">>)

IsTimeoutLine(l) ==
  (HasWord(l, "timeout") \/ HasWord(l, "Timeout")) /\ ~HasWord(l, "ImageElements")

IsRenderingLine(l) ==
  \/ Includes(l, <<"rendering", "budget">>)
  \/ Includes(l, <<"budget", "exceeded">>)
  \/ Includes(l, <<"performance", "budget">>)

TimeoutEntry(l) ==
  IF HasDur(l) THEN [kind |-> "Resource timeout", text |-> <<FirstDur(l)>>]
  ELSE [kind |-> "Timeout detected", text |-> SubSeq(l, 1, Min(ExcerptLen, Len(l)))]

ParseRealLine(e, line) ==
  LET l == Trim(line) IN
  IF l = <<>> THEN e
  ELSE
    [e EXCEPT
       !.raw = Append(@, l),
       !.push = IF IsPushNodeLine(l) THEN @ + 1 ELSE @,
       !.img = IF IsImageBudgetLine(l)
               THEN (IF HasRatio(l) THEN ImgRatioMsg(FirstRatio(l)) ELSE ImgPlainMsg)
               ELSE @,
       !.timeouts = IF IsTimeoutLine(l) THEN Append(@, TimeoutEntry(l)) ELSE @,
       !.rend = IF IsRenderingLine(l) THEN TRUE ELSE @]

RECURSIVE FoldRealLines(_, _)
FoldRealLines(e, lines) ==
  IF lines = <<>> THEN e
  ELSE FoldRealLines(ParseRealLine(e, Head(lines)), Tail(lines))

parseRealLighthouseErrors(errorOutput) ==
  FoldRealLines(EmptyRealErrors, SplitLines(errorOutput))

\* extractBasicLighthouseData: the error report of the library fallback
extractBasicLighthouseData ==
  [push |-> 0, img |-> NullImg, timeouts |-> <<>>, rend |-> FALSE,
   raw |-> << <<"Library method - no stderr available">> >>, warnings |-> <<>>,
   method |-> "LIBRARY_FALLBACK"]

(***************************************************************************)
(* stderr 'data' handler of runLighthouseWithErrorCapture (variant ENH):   *)
(* the rules run on the lines of each chunk as it arrives                  *)
(***************************************************************************)
EmptyStreamErrors ==
  [push |-> 0, img |-> NullImg, timeouts |-> <<>>, rend |-> FALSE,
   raw |-> <<>>, warnings |-> <<>>, method |-> "none"]

PushLogCap == 10
OtherLogCap == 20

\* /Skipped extra details for (\d+)\/(\d+)/
HasSkippedRatio(l) ==
  \E i \in 1..(Len(l) - 2) :
     l[i] = "Skipped extra details" /\ l[i+1] = "for" /\ l[i+2] \in RatioToks
SkippedRatio(l) ==
  l[(CHOOSE i \in 1..(Len(l) - 2) :
        /\ l[i] = "Skipped extra details" /\ l[i+1] = "for" /\ l[i+2] \in RatioToks
        /\ \A j \in 1..(i-1) :
             ~(l[j] = "Skipped extra details" /\ l[j+1] = "for" /\ l[j+2] \in RatioToks)) + 2]

StreamRule1(e, l) ==
  IF HasWord(l, "DOM.pushNodeByPathToFrontend")
  THEN [e EXCEPT !.push = @ + 1,
                 !.raw = IF Len(@) < PushLogCap THEN Append(@, Trim(l)) ELSE @]
  ELSE e

StreamRule2(e, l) ==
  IF HasWord(l, "ImageElements:warn") /\ Includes(l, <<"gathering", "budget">>)
  THEN [e EXCEPT !.img = IF HasSkippedRatio(l) THEN ImgRatioMsg(SkippedRatio(l)) ELSE @,
                 !.warnings = Append(@, Trim(l))]
  ELSE e

StreamRule3(e, l) ==
  IF HasWord(l, "budget") /\ (HasWord(l, "exceeded") \/ HasWord(l, "Reached"))
  THEN [e EXCEPT !.rend = TRUE, !.warnings = Append(@, Trim(l))]
  ELSE e

StreamRule4(e, l) ==
  IF HasWord(l, "timeout") \/ HasWord(l, "Timeout")
  THEN [e EXCEPT !.timeouts = Append(@, [kind |-> "line", text |-> Trim(l)])]
  ELSE e

StreamRule5(e, l) ==
  IF (HasWord(l, "ERR:error") \/ HasWord(l, "WARN:"))
     /\ ~HasWord(l, "DOM.pushNodeByPathToFrontend")
  THEN [e EXCEPT !.raw = IF Len(@) < OtherLogCap THEN Append(@, Trim(l)) ELSE @]
  ELSE e

StreamLine(e, l) ==
  StreamRule5(StreamRule4(StreamRule3(StreamRule2(StreamRule1(e, l), l), l), l), l)

\* lines.forEach: the rules run on one line after the other, each on the
\* report as the lines before it left it (the guard has the report of a line
\* evaluated before the next line is taken; a count never decreases)
RECURSIVE FoldStreamLines(_, _)
FoldStreamLines(e, lines) ==
  IF lines = <<>> THEN e
  ELSE LET next == StreamLine(e, Head(lines)) IN
       CASE next.push >= e.push -> FoldStreamLines(next, Tail(lines))

StderrChunkENH(e, chunk) == FoldStreamLines(e, SplitLines(chunk))

\* the empty error structure of the ENH library fallback
FallbackErrorsENH == EmptyStreamErrors


(***************************************************************************)
(* Reports.  A report is what JSON.parse or the library call returns:      *)
(*   kind    "object", "null" or "undefined"                               *)
(*   audits  the audits map is present                                     *)
(*   dom     audits['dom-size'] is present                                 *)
(*   nv      numericValue; details "missing", "noitems" or "items"         *)
(*   items   details.items, each item's value a JS value                   *)
(* JS values: [t |-> "undef"|"null"|"num"|"obj", v |-> n]; for "obj" the   *)
(* number sits under the nested value field.                               *)
(***************************************************************************)
Undef == [t |-> "undef", v |-> 0]
Num(n) == [t |-> "num", v |-> n]
Obj(n) == [t |-> "obj", v |-> n]
NullVal == [t |-> "null", v |-> 0]

Report(nv, items) ==
  [kind |-> "object", audits |-> TRUE, dom |-> TRUE, nv |-> nv,
   details |-> "items", items |-> items]

NoDomSize == [EmptyObject EXCEPT !.audits = TRUE]
UndefinedReport == [EmptyObject EXCEPT !.kind = "undefined"]

\* the value JSON.parse returns for a document: the members its first body
\* token stands for ("b": a dom-size audit, "b0": audits without dom-size)
FullReport == Report(Num(1600), <<Num(2500), Obj(40), Num(70)>>)

JsonValue(text) ==
  IF HasTok(text, "b") /\ (~HasTok(text, "b0") \/ IndexOf(text, "b") < IndexOf(text, "b0"))
    THEN FullReport
  ELSE IF HasTok(text, "b0") THEN NoDomSize
  ELSE EmptyObject

Item(items, i) == IF i <= Len(items) THEN items[i] ELSE Undef

\* variation: only a plain number is read
ItemValue_PlainOnly(it, keep) == IF it.t = "num" THEN it.v ELSE keep

\* typeof v === 'number' ? v : (v && typeof v === 'object' && v.value) ? v.value : keep
ItemValue(it, keep) ==
  IF it.t = "num" THEN it.v
  ELSE IF it.t = "obj" /\ it.v # 0 THEN it.v
  ELSE keep

\* runnerResult.audits / audits['dom-size'] raise a TypeError on a missing object
ExtractThrows(lhr) == lhr.kind # "object" \/ ~lhr.audits

\* variation: a numeric item[0] replaces the node count instead of raising it
ExtractDom_ItemOverrides(lhr) ==
  IF ~lhr.dom THEN [domNodes |-> 0, domDepth |-> 0, maxChildren |-> 0]
  ELSE
    LET n0 == IF lhr.nv.t = "num" /\ lhr.nv.v # 0 THEN lhr.nv.v ELSE 0 IN
    IF lhr.details # "items" THEN [domNodes |-> n0, domDepth |-> 0, maxChildren |-> 0]
    ELSE
      LET i0 == Item(lhr.items, 1)
          i1 == Item(lhr.items, 2)
          i2 == Item(lhr.items, 3)
      IN [domNodes |-> ItemValue(i0, n0),
          domDepth |-> ItemValue(i1, 0),
          maxChildren |-> ItemValue(i2, 0)]

\* numericValue and the item values are numbers, null or absent (an item value
\* may also be an object holding the number)
ExtractDom(lhr) ==
  IF ~lhr.dom THEN [domNodes |-> 0, domDepth |-> 0, maxChildren |-> 0]
  ELSE
    LET n0 == IF lhr.nv.t = "num" /\ lhr.nv.v # 0 THEN lhr.nv.v ELSE 0 IN
    IF lhr.details # "items" THEN [domNodes |-> n0, domDepth |-> 0, maxChildren |-> 0]
    ELSE
      LET i0 == Item(lhr.items, 1)
          i1 == Item(lhr.items, 2)
          i2 == Item(lhr.items, 3)
      IN [domNodes |-> IF i0.t = "num" \/ (i0.t = "obj" /\ i0.v # 0)
                       THEN Max(n0, i0.v) ELSE n0,
          domDepth |-> ItemValue(i1, 0),
          maxChildren |-> ItemValue(i2, 0)]

(***************************************************************************)
(* Number arithmetic of the scoring step.  The metrics and counts are      *)
(* integers; the penalties (domNodes - 1500) / 100 and failures / 10 and   *)
(* the running score are IEEE-754 doubles.  Every double the scoring step  *)
(* can produce is a multiple of 2^-59 close to a multiple of 1/100, and is *)
(* held as [h, e] standing for the value (h + e / 2^59) / 100: h counts    *)
(* hundredths and e is the representation error on the 2^-59 grid.         *)
(***************************************************************************)
Hundred == 100
Precision == 53                    \* significant bits of a double
GridBits == 59                     \* the finest grid: ulp of 1/100 is 2^-59

Dbl(h, e) == [h |-> h, e |-> e]
DblInt(n) == Dbl(n * Hundred, 0)

DblLess(x, y) == x.h < y.h \/ (x.h = y.h /\ x.e < y.e)
DblNeg(x) == Dbl(0 - x.h, 0 - x.e)

Pow2(n) == 2 ^ n

\* 2^n mod 100; from n = 2 on the residues repeat with period 20
Pow2Mod(n) == IF n < 2 THEN 2 ^ n ELSE (2 ^ (2 + ((n - 2) % 20))) % Hundred

\* x >= 2^k, for a double x > 0
AtLeastPow2(x, k) ==
  IF k >= 0
  THEN ~DblLess(x, DblInt(Pow2(k)))
  ELSE ~DblLess(Dbl(x.h * Pow2(0 - k), x.e), DblInt(1))

\* the exponent of a double x > 0, searched downwards from k (values below
\* 2^-7 are exact on the grid)
RECURSIVE ExponentFrom(_, _)
ExponentFrom(x, k) ==
  IF k < -7 THEN -8
  ELSE IF AtLeastPow2(x, k) THEN k
  ELSE ExponentFrom(x, k - 1)

Exponent(x) == ExponentFrom(x, 7)

\* (h * 2^59 + e) mod (100 * 2^j): the distance, in grid units times 100,
\* from the multiple of 2^(j-59) below the exact value
GridRemainder(x, j) ==
  (Pow2(j) * (((x.h % Hundred) * Pow2Mod(GridBits - j)) % Hundred) + x.e)
     % (Hundred * Pow2(j))

\* x rounded to a multiple of 2^(j-59), ties to even; r is its remainder on
\* that grid
RoundAt(x, j, r) ==
  LET half == (Hundred \div 2) * Pow2(j)
      down == Dbl(x.h, x.e - r)
      up == Dbl(x.h, x.e + Hundred * Pow2(j) - r)
  IN IF r < half THEN down
     ELSE IF r > half THEN up
     ELSE IF GridRemainder(x, j + 1) = r THEN down ELSE up

\* the exact value x > 0 rounded to 53 significant bits (the exponent and
\* the remainder are bound as values before use)
RoundToDoublePos(x) ==
  CHOOSE rounded \in
    { CHOOSE at \in { RoundAt(x, j, r) : r \in {GridRemainder(x, j)} } : TRUE
      : j \in {Max(0, Exponent(x) + 1 - Precision + GridBits)} } : TRUE

\* the operand is bound as a value v before it is rounded
RoundToDouble(x) ==
  CHOOSE rounded \in
    { IF v = Dbl(0, 0) THEN v
      ELSE IF DblLess(v, Dbl(0, 0))
           THEN CHOOSE n \in { DblNeg(RoundToDoublePos(p)) : p \in {DblNeg(v)} } : TRUE
           ELSE RoundToDoublePos(v)
      : v \in {x} } : TRUE

\* a / d for an integer a and d dividing 100
DblQuot(a, d) == RoundToDouble(Dbl(a * (Hundred \div d), 0))

\* x - y
DblMinus(x, y) == RoundToDouble(Dbl(x.h - y.h, x.e - y.e))

\* Math.min(cap, p)
MathMin(cap, p) == IF DblLess(p, DblInt(cap)) THEN p ELSE DblInt(cap)

\* Math.round: floor(x + 0.5), computed exactly
MathRound(x) ==
  LET t == x.h + (Hundred \div 2) IN
  IF t % Hundred = 0 /\ x.e < 0 THEN (t \div Hundred) - 1 ELSE t \div Hundred

(***************************************************************************)
(* Crawlability scoring                                                    *)
(***************************************************************************)
NodeLimit == 1500
DepthLimit == 32
ChildLimit == 60
NodeCap == 30
DepthCap == 20
ChildCap == 25
PushCap == 25
ImagePenalty == 15
RenderPenalty == 10
TimeoutCap == 20
TimeoutEach == 5
PushEachCLI == 2
PushDivENH == 10
StartScore == 100

NodePenalty(n) == MathMin(NodeCap, DblQuot(n - NodeLimit, Hundred))
\* variation: the difference is taken the other way round
DepthPenalty_LimitMinusDepth(d) == MathMin(DepthCap, DblInt((DepthLimit - d) * 2))

DepthPenalty(d) == MathMin(DepthCap, DblInt((d - DepthLimit) * 2))
ChildPenalty(c) == MathMin(ChildCap, DblInt(c - ChildLimit))
PushPenalty(v, k) ==
  IF v = "CLI" THEN MathMin(PushCap, DblInt(k * PushEachCLI))
  ELSE MathMin(PushCap, DblQuot(k, PushDivENH))
TimeoutPenalty(k) == MathMin(TimeoutCap, DblInt(k * TimeoutEach))

\* variation: a node count at the limit is penalised too
NodesExceed_AtLimit(n) == n >= NodeLimit

\* domNodes > 1500
NodesExceed(n) == n > NodeLimit

\* variation: the resource-timeout entry is put in front of the list
Penalties_TimeoutsFirst(v, m, e) ==
  (IF Len(e.timeouts) > 0
     THEN << [label |-> "Resource timeouts", amount |-> TimeoutPenalty(Len(e.timeouts))] >>
     ELSE <<>>)
  \o (IF NodesExceed(m.domNodes)
     THEN << [label |-> "DOM nodes", amount |-> NodePenalty(m.domNodes)] >> ELSE <<>>)
  \o (IF m.domDepth > DepthLimit
     THEN << [label |-> "DOM depth", amount |-> DepthPenalty(m.domDepth)] >> ELSE <<>>)
  \o (IF m.maxChildren > ChildLimit
     THEN << [label |-> "Max children", amount |-> ChildPenalty(m.maxChildren)] >> ELSE <<>>)
  \o (IF e.push > 0
     THEN << [label |-> "DOM pushNode failures", amount |-> PushPenalty(v, e.push)] >> ELSE <<>>)
  \o (IF e.img # NullImg
     THEN << [label |-> "Image gathering budget exceeded", amount |-> DblInt(ImagePenalty)] >>
     ELSE <<>>)
  \o (IF e.rend
     THEN << [label |-> "Rendering budget exceeded", amount |-> DblInt(RenderPenalty)] >>
     ELSE <<>>)

\* the penalties applied, in evaluation order
Penalties(v, m, e) ==
  (IF NodesExceed(m.domNodes)
     THEN << [label |-> "DOM nodes", amount |-> NodePenalty(m.domNodes)] >> ELSE <<>>)
  \o (IF m.domDepth > DepthLimit
     THEN << [label |-> "DOM depth", amount |-> DepthPenalty(m.domDepth)] >> ELSE <<>>)
  \o (IF m.maxChildren > ChildLimit
     THEN << [label |-> "Max children", amount |-> ChildPenalty(m.maxChildren)] >> ELSE <<>>)
  \o (IF e.push > 0
     THEN << [label |-> "DOM pushNode failures", amount |-> PushPenalty(v, e.push)] >> ELSE <<>>)
  \o (IF e.img # NullImg
     THEN << [label |-> "Image gathering budget exceeded", amount |-> DblInt(ImagePenalty)] >>
     ELSE <<>>)
  \o (IF e.rend
     THEN << [label |-> "Rendering budget exceeded", amount |-> DblInt(RenderPenalty)] >>
     ELSE <<>>)
  \o (IF Len(e.timeouts) > 0
     THEN << [label |-> "Resource timeouts", amount |-> TimeoutPenalty(Len(e.timeouts))] >>
     ELSE <<>>)

\* crawlabilityScore -= penalty, one penalty after the other
RECURSIVE SubtractAll(_, _)
SubtractAll(score, ps) ==
  IF ps = <<>> THEN score
  ELSE CHOOSE final \in
         { SubtractAll(next, Tail(ps)) : next \in {DblMinus(score, Head(ps).amount)} } : TRUE

RawScore(v, m, e) == SubtractAll(DblInt(StartScore), Penalties(v, m, e))

\* variation: the lower clamp is left out
FinalScore_NoClamp(raw) == MathRound(raw)

\* Math.max(0, Math.round(crawlabilityScore))
FinalScore(raw) == Max(0, MathRound(raw))

CrawlabilityScore(v, m, e) == FinalScore(RawScore(v, m, e))

\* variation: the thresholds themselves fall into the lower tier
CrawlabilityRisk_Strict(score) ==
  IF score > 80 THEN "LOW" ELSE IF score > 60 THEN "MEDIUM" ELSE "HIGH"

\* crawlabilityScore >= 80 ? 'LOW' : crawlabilityScore >= 60 ? 'MEDIUM' : 'HIGH'
CrawlabilityRisk(score) ==
  IF score >= 80 THEN "LOW" ELSE IF score >= 60 THEN "MEDIUM" ELSE "HIGH"


(***************************************************************************)
(* One analysis request.  req[r] holds everything the request owns:        *)
(*   pc          "new", "awaitCLI", "awaitLaunch", "awaitLib", "awaitKill", *)
(*               "scoring", "done"                                         *)
(*   proc        the subprocess: "none", "running", "exited", "nospawn"    *)
(*   outPipe, errPipe   chunks written by the subprocess, not yet read     *)
(*   timer       "unset", "armed", "cleared", "fired"                      *)
(*   promise     "none", "pending", "resolved", "rejected"                 *)
(*   chrome      the library strategy's browser: "none", "alive", "dead"   *)
(* settledAlive, firedLate, libStartAlive and parsedPartial record what    *)
(* held at the moment of a past step.                                      *)
(***************************************************************************)
Reqs == {1}

NoValue == [lhr |-> UndefinedReport, errors |-> EmptyStreamErrors]
NoMetrics == [domNodes |-> 0, domDepth |-> 0, maxChildren |-> 0]
NoResp ==
  [status |-> 0, success |-> FALSE, error |-> "none", url |-> "",
   dom |-> NoMetrics, score |-> 0, risk |-> "none", penalties |-> <<>>,
   errors |-> EmptyStreamErrors, capture_method |-> "absent"]

NewRequest ==
  [pc |-> "new", url |-> "",
   proc |-> "none", exitCode |-> "none", sigterm |-> FALSE, killCalls |-> 0,
   outPipe |-> <<>>, errPipe |-> <<>>, nWritten |-> 0,
   jsonOutput |-> <<>>, stderrOutput |-> <<>>, lhErrors |-> EmptyStreamErrors,
   timer |-> "unset", closeEmitted |-> FALSE, closeHandled |-> FALSE,
   errorHandled |-> FALSE,
   promise |-> "none", pValue |-> NoValue, pError |-> "none",
   cliStarts |-> 0, libStarts |-> 0, chrome |-> "none", exc |-> "none",
   runnerResult |-> UndefinedReport, lighthouseErrors |-> EmptyStreamErrors,
   analysisMethod |-> "UNKNOWN", dom |-> NoMetrics,
   resp |-> NoResp, nResp |-> 0,
   settledAlive |-> FALSE, firedLate |-> FALSE, libStartAlive |-> FALSE,
   parsedPartial |-> FALSE]

(***************************************************************************)
(* Promise settling: resolve and reject act on a pending promise only      *)
(***************************************************************************)
\* variation: a later resolve replaces the outcome of a settled promise
Resolve_Overwrites(s, val) ==
  [s EXCEPT !.promise = "resolved", !.pValue = val, !.settledAlive = (s.proc = "running")]

Resolve(s, val) ==
  IF s.promise = "pending"
  THEN [s EXCEPT !.promise = "resolved", !.pValue = val,
                 !.settledAlive = (s.proc = "running")]
  ELSE s

Reject(s, err) ==
  IF s.promise = "pending"
  THEN [s EXCEPT !.promise = "rejected", !.pError = err,
                 !.settledAlive = (s.proc = "running")]
  ELSE s

\* clearTimeout(timeout)
ClearTimeout(s) == IF s.timer = "armed" THEN [s EXCEPT !.timer = "cleared"] ELSE s

(***************************************************************************)
(* The process runner's listeners                                          *)
(***************************************************************************)
\* chunk.includes(...) of the CLI stdout listener
StdoutChunkLooksLikeError(chunk) ==
  \/ HasWord(chunk, "ImageElements:warn")
  \/ HasWord(chunk, "DOM.pushNodeByPathToFrontend")
  \/ HasWord(chunk, "timeout")
  \/ Includes(chunk, <<"budget", "exceeded">>)

OnStdoutData(v, s, chunk) ==
  IF v = "CLI"
  THEN [s EXCEPT !.jsonOutput = @ \o chunk,
                 !.stderrOutput = IF StdoutChunkLooksLikeError(chunk) THEN @ \o chunk ELSE @]
  ELSE [s EXCEPT !.jsonOutput = @ \o chunk]

OnStderrData(v, s, chunk) ==
  IF v = "CLI"
  THEN [s EXCEPT !.stderrOutput = @ \o chunk]
  ELSE [s EXCEPT !.stderrOutput = @ \o chunk,
                 !.lhErrors = StderrChunkENH(@, chunk)]

\* jsonOutput.substring(jsonStart, jsonEnd), arguments swapped when out of order
JsonPart(out) ==
  LET first == IndexOf(out, "{")
      last == LastIndexOf(out, "}")
  IN IF first - 1 <= last THEN SubSeq(out, first, last)
     ELSE SubSeq(out, last + 1, first - 1)

\* the try block of the CLI 'close' listener
CloseOutcomeCLI(s) ==
  IF IndexOf(s.jsonOutput, "{") = 0 \/ LastIndexOf(s.jsonOutput, "}") = 0
    THEN [ok |-> FALSE, err |-> "No valid JSON found in Lighthouse output", val |-> NoValue]
  ELSE IF ~JsonParses(JsonPart(s.jsonOutput))
    THEN [ok |-> FALSE, err |-> "SyntaxError", val |-> NoValue]
  ELSE [ok |-> TRUE, err |-> "none",
        val |-> [lhr |-> JsonValue(JsonPart(s.jsonOutput)),
                 errors |-> parseRealLighthouseErrors(s.stderrOutput)]]

\* the try block of the ENH 'close' listener
CloseOutcomeENH(s) ==
  IF Trim(s.jsonOutput) = <<>>
    THEN [ok |-> FALSE,
          err |-> "Failed to parse Lighthouse output: No stdout from Lighthouse CLI",
          val |-> NoValue]
  ELSE IF ~JsonParses(s.jsonOutput)
    THEN [ok |-> FALSE, err |-> "Failed to parse Lighthouse output: SyntaxError",
          val |-> NoValue]
  ELSE [ok |-> TRUE, err |-> "none",
        val |-> [lhr |-> JsonValue(s.jsonOutput), errors |-> s.lhErrors]]

\* variation: a non-zero exit code rejects the run
CloseOutcome_FailOnNonZero(v, s, code) ==
  IF code # "0" THEN [ok |-> FALSE, err |-> "exit code", val |-> NoValue]
  ELSE IF v = "CLI" THEN CloseOutcomeCLI(s) ELSE CloseOutcomeENH(s)

CloseOutcome(v, s, code) == IF v = "CLI" THEN CloseOutcomeCLI(s) ELSE CloseOutcomeENH(s)

\* does the 'close' listener cancel the deadline timer
CloseClearsTimer(v) == v = "ENH"

OnClose(v, s, code) ==
  LET s1 == IF CloseClearsTimer(v) THEN ClearTimeout(s) ELSE s
      s2 == [s1 EXCEPT !.closeHandled = TRUE,
                       !.parsedPartial = @ \/ s.proc = "running" \/ s.outPipe # <<>>]
      o == CloseOutcome(v, s2, code)
  IN IF o.ok THEN Resolve(s2, o.val) ELSE Reject(s2, o.err)

OnError(v, s) ==
  LET s1 == IF v = "ENH" THEN ClearTimeout(s) ELSE s
  IN Reject([s1 EXCEPT !.errorHandled = TRUE], "spawn error")

TimeoutMessage(v) ==
  IF v = "CLI" THEN "Lighthouse CLI timeout after 60 seconds"
  ELSE "Lighthouse CLI timeout after 3 minutes"

\* ChildProcess.kill(): the signal goes out only to a process that still runs
Kill(s) ==
  [s EXCEPT !.killCalls = @ + 1, !.sigterm = @ \/ s.proc = "running"]

\* variation: the callback kills the subprocess and leaves the promise alone
OnTimeout_NoReject(v, s) ==
  Kill([s EXCEPT !.timer = "fired", !.firedLate = s.closeHandled \/ s.errorHandled])

\* the deadline timer's callback
OnTimeout(v, s) ==
  Reject(Kill([s EXCEPT !.timer = "fired",
                        !.firedLate = s.closeHandled \/ s.errorHandled]),
         TimeoutMessage(v))

\* variation: the parsing listener is registered on 'exit'
ParseListenerEvent_Exit == "exit"

\* the event on which the parsing listener is registered
ParseListenerEvent == "close"

(***************************************************************************)
(* The /dom-analysis handler                                               *)
(***************************************************************************)
\* variation: the outer catch reports the CLI strategy's error
CatchAll_CliError(s) ==
  [s EXCEPT !.pc = "done", !.nResp = @ + 1,
            !.resp = [NoResp EXCEPT !.status = 500, !.error = s.pError, !.url = s.url]]

\* the outer catch: res.status(500).json({success: false, error: error.message, url})
CatchAll(s) ==
  [s EXCEPT !.pc = "done", !.nResp = @ + 1,
            !.resp = [NoResp EXCEPT !.status = 500, !.error = s.exc, !.url = s.url]]

\* an exception leaves the try block; exc is the exception in flight
Throw(s, msg) == CatchAll([s EXCEPT !.exc = msg])

CaptureMethod(v, s) == IF v = "CLI" THEN s.analysisMethod ELSE "absent"

\* penalties, score, risk tier and res.json
ScoreAndRespond(v, s) ==
  CHOOSE out \in {
  [s EXCEPT !.pc = "done", !.nResp = @ + 1,
            !.resp = [status |-> 200, success |-> TRUE, error |-> "none", url |-> s.url,
                      dom |-> s.dom, score |-> score, risk |-> CrawlabilityRisk(score),
                      penalties |-> Penalties(v, s.dom, s.lighthouseErrors),
                      errors |-> s.lighthouseErrors,
                      capture_method |-> CaptureMethod(v, s)]]
   : score \in {CrawlabilityScore(v, s.dom, s.lighthouseErrors)} } : TRUE

\* from "const audits = runnerResult.audits" to the response
Finish(v, s) ==
  IF ExtractThrows(s.runnerResult) THEN Throw(s, "TypeError")
  ELSE ScoreAndRespond(v, [s EXCEPT !.dom = ExtractDom(s.runnerResult)])

\* variation: a CLI failure is reported without trying the library
StartLibrary_NoFallback(s) == Throw(s, s.pError)

\* the catch branch: chromeLauncher.launch is called
StartLibrary(s) ==
  [s EXCEPT !.pc = "awaitLaunch", !.libStarts = @ + 1,
            !.libStartAlive = (s.proc = "running")]

\* variation: the library strategy runs whatever the CLI strategy returned
AfterCLI_AlwaysLibrary(v, s) == StartLibrary(s)

\* the continuation of "await runLighthouseCLI(url)"
AfterCLI(v, s) ==
  IF s.promise = "resolved"
  THEN Finish(v, [s EXCEPT !.runnerResult = s.pValue.lhr,
                           !.lighthouseErrors = s.pValue.errors,
                           !.analysisMethod = IF v = "CLI" THEN "CLI_REAL_ERRORS" ELSE @])
  ELSE StartLibrary(s)

\* variation: the fallback keeps what the CLI run had captured
LibraryErrors_KeepCaptured(v, s) ==
  IF v = "CLI" THEN parseRealLighthouseErrors(s.stderrOutput) ELSE s.lhErrors

\* the error report of the library strategy
LibraryErrors(v, s) == IF v = "CLI" THEN extractBasicLighthouseData ELSE FallbackErrorsENH

\* the continuation of "await lighthouse(url, options)", up to "await chrome.kill()"
AfterLibrary(v, s, out) ==
  IF out.threw THEN [s EXCEPT !.pc = "awaitKill", !.exc = "lighthouse error"]
  ELSE IF out.lhr.kind = "undefined" THEN [s EXCEPT !.pc = "awaitKill", !.exc = "TypeError"]
  ELSE [s EXCEPT !.pc = "awaitKill",
                 !.runnerResult = out.lhr,
                 !.lighthouseErrors = LibraryErrors(v, s),
                 !.analysisMethod = IF v = "CLI" THEN "LIBRARY_FALLBACK" ELSE @]

\* the continuation of "await chrome.kill()" in the finally block
AfterKill(v, s, ok) ==
  IF ~ok THEN Throw(s, "chrome kill error")
  ELSE LET s1 == [s EXCEPT !.chrome = "dead"] IN
       IF s1.exc # "none" THEN CatchAll(s1) ELSE Finish(v, s1)


(***************************************************************************)
(* Inputs                                                                  *)
(***************************************************************************)
Urls == {"", "https://a.example"}

StdoutChunks ==
  { <<"{", "b", "}">>, <<"{", "b">>, <<"}">>, <<"{", "}">>, <<"w">>, <<"timeout">> }

StderrChunks ==
  { <<"DOM.pushNodeByPathToFrontend", "failed", "nl">>, <<"Timeout", "5s", "nl">> }

LibOutcomes ==
  { [threw |-> TRUE, lhr |-> UndefinedReport],
    [threw |-> FALSE, lhr |-> UndefinedReport],
    [threw |-> FALSE, lhr |-> FullReport],
    [threw |-> FALSE, lhr |-> EmptyObject] }

ExitCodesOf(s) == IF s.sigterm THEN {"0", "1", "null"} ELSE {"0", "1"}

(***************************************************************************)
(* Actions                                                                 *)
(***************************************************************************)
Set(r, s) == req' = [req EXCEPT ![r] = s] /\ UNCHANGED variant

\* variation: the runner sets no deadline timer
runLighthouseCLI_NoTimer(s, u, spawned) ==
  [s EXCEPT !.url = u, !.pc = "awaitCLI", !.cliStarts = @ + 1,
            !.proc = IF spawned THEN "running" ELSE "nospawn",
            !.promise = "pending"]

\* runLighthouseCLI / runLighthouseWithErrorCapture up to the returned promise
runLighthouseCLI(s, u, spawned) ==
  [s EXCEPT !.url = u, !.pc = "awaitCLI", !.cliStarts = @ + 1,
            !.proc = IF spawned THEN "running" ELSE "nospawn",
            !.timer = "armed", !.promise = "pending"]

BadRequest(s) ==
  [s EXCEPT !.pc = "done", !.nResp = @ + 1,
            !.resp = [NoResp EXCEPT !.status = 400, !.error = "URL required"]]

Receive(r) ==
  /\ req[r].pc = "new"
  /\ \E u \in Urls, spawned \in BOOLEAN :
       Set(r, IF u = "" THEN BadRequest(req[r]) ELSE runLighthouseCLI(req[r], u, spawned))

ProcWriteOut(r) ==
  /\ req[r].proc = "running"
  /\ req[r].nWritten < MaxChunks
  /\ \E c \in StdoutChunks :
       Set(r, [req[r] EXCEPT !.outPipe = Append(@, c), !.nWritten = @ + 1])

ProcWriteErr(r) ==
  /\ req[r].proc = "running"
  /\ req[r].nWritten < MaxChunks
  /\ \E c \in StderrChunks :
       Set(r, [req[r] EXCEPT !.errPipe = Append(@, c), !.nWritten = @ + 1])

\* the subprocess ends; Node emits 'exit'
ProcExit(r) ==
  /\ req[r].proc = "running"
  /\ \E code \in ExitCodesOf(req[r]) :
       LET s1 == [req[r] EXCEPT !.proc = "exited", !.exitCode = code] IN
       Set(r, IF ParseListenerEvent = "exit" THEN OnClose(variant, s1, code) ELSE s1)

\* variation: the buffers are declared outside the function and shared by
\* every call
BufferOwner_Shared(r) == 1

\* the call whose buffers the listeners of call r append to: jsonOutput and
\* stderrOutput (stdout, stderr, lighthouseErrors) are locals of the call
BufferOwner(r) == r

StdoutData(r) ==
  /\ req[r].outPipe # <<>>
  /\ LET chunk == Head(req[r].outPipe)
         read == [req EXCEPT ![r].outPipe = Tail(@)]
     IN req' = [read EXCEPT ![BufferOwner(r)] = OnStdoutData(variant, @, chunk)]
  /\ UNCHANGED variant

StderrData(r) ==
  /\ req[r].errPipe # <<>>
  /\ LET chunk == Head(req[r].errPipe)
         read == [req EXCEPT ![r].errPipe = Tail(@)]
     IN req' = [read EXCEPT ![BufferOwner(r)] = OnStderrData(variant, @, chunk)]
  /\ UNCHANGED variant

\* Node emits 'close' once the process has ended and its streams are drained
CloseEvent(r) ==
  /\ ~req[r].closeEmitted
  /\ \/ req[r].proc = "exited" /\ req[r].outPipe = <<>> /\ req[r].errPipe = <<>>
     \/ req[r].proc = "nospawn" /\ req[r].errorHandled
  /\ LET s1 == [req[r] EXCEPT !.closeEmitted = TRUE] IN
     Set(r, IF ParseListenerEvent = "close" THEN OnClose(variant, s1, s1.exitCode) ELSE s1)

\* Node emits 'error' when the subprocess could not be spawned
ErrorEvent(r) ==
  /\ req[r].proc = "nospawn"
  /\ ~req[r].errorHandled
  /\ Set(r, OnError(variant, req[r]))

TimerFire(r) ==
  /\ req[r].timer = "armed"
  /\ Set(r, OnTimeout(variant, req[r]))

ContinueCLI(r) ==
  /\ req[r].pc = "awaitCLI"
  /\ req[r].promise \in {"resolved", "rejected"}
  /\ Set(r, AfterCLI(variant, req[r]))

\* chromeLauncher.launch settles
LaunchSettles(r) ==
  /\ req[r].pc = "awaitLaunch"
  /\ \E ok \in BOOLEAN :
       Set(r, IF ok THEN [req[r] EXCEPT !.pc = "awaitLib", !.chrome = "alive"]
              ELSE Throw(req[r], "launch error"))

LibrarySettles(r) ==
  /\ req[r].pc = "awaitLib"
  /\ \E out \in LibOutcomes : Set(r, AfterLibrary(variant, req[r], out))

KillSettles(r) ==
  /\ req[r].pc = "awaitKill"
  /\ \E ok \in BOOLEAN : Set(r, AfterKill(variant, req[r], ok))

Init ==
  /\ variant \in Variants
  /\ req = [r \in Reqs |-> NewRequest]

Next ==
  \E r \in Reqs :
    \/ Receive(r)
    \/ ProcWriteOut(r)
    \/ ProcWriteErr(r)
    \/ ProcExit(r)
    \/ StdoutData(r)
    \/ StderrData(r)
    \/ CloseEvent(r)
    \/ ErrorEvent(r)
    \/ TimerFire(r)
    \/ ContinueCLI(r)
    \/ LaunchSettles(r)
    \/ LibrarySettles(r)
    \/ KillSettles(r)

Spec == Init /\ [][Next]_vars


\* the await continuation of a settled promise always runs (microtask queue)
FairSpec == Spec /\ \A r \in Reqs : WF_vars(ContinueCLI(r))

(***************************************************************************)
(* Fallback orchestration                                                  *)
(***************************************************************************)
CliFailureKinds ==
  { "spawn error",
    "Lighthouse CLI timeout after 60 seconds", "Lighthouse CLI timeout after 3 minutes",
    "No valid JSON found in Lighthouse output", "SyntaxError",
    "Failed to parse Lighthouse output: No stdout from Lighthouse CLI",
    "Failed to parse Lighthouse output: SyntaxError" }

C1_State ==
  \A r \in Reqs :
    LET s == req[r] IN
    /\ s.promise = "rejected" => s.pError \in CliFailureKinds
    /\ (s.promise = "rejected" /\ s.pc # "awaitCLI") => s.libStarts = 1
    /\ (s.promise = "rejected" /\ s.pc = "awaitCLI") => (s.libStarts = 0 /\ s.nResp = 0)

\* C1: every failure of the CLI strategy (spawn error, deadline expiry, empty
\* stdout, stdout without parseable JSON) is followed by exactly one attempt of
\* the library strategy, and no response is sent for a failed CLI strategy
\* before the library strategy has been attempted.
C1_CliFailureLeadsToLibrary ==
  /\ []C1_State
  /\ \A r \in Reqs : (req[r].promise = "rejected") ~> (req[r].libStarts = 1)

C1_Witness ==
  \E r \in Reqs :
    /\ req[r].pError = "No valid JSON found in Lighthouse output"
    /\ req[r].libStarts = 1
    /\ req[r].resp.status = 500

\* C2: per request the CLI strategy and the library strategy are each started
\* at most once, the library strategy only after the CLI strategy was rejected,
\* and nothing is started once the request is done.
C2_State ==
  \A r \in Reqs :
    LET s == req[r] IN
    /\ s.cliStarts <= 1
    /\ s.libStarts <= 1
    /\ s.libStarts = 1 => (s.cliStarts = 1 /\ s.promise = "rejected")

C2_EachStrategyAtMostOnce ==
  /\ []C2_State
  /\ [][\A r \in Reqs :
          req[r].pc = "done" =>
            /\ req'[r].pc = "done"
            /\ req'[r].cliStarts = req[r].cliStarts
            /\ req'[r].libStarts = req[r].libStarts]_vars

C2_Witness ==
  \E r \in Reqs :
    /\ req[r].pc = "done"
    /\ req[r].cliStarts = 1
    /\ req[r].libStarts = 1
    /\ req[r].resp.success

\* C3: in runLighthouseCLI's pipeline, a deadline timeout of the CLI strategy
\* followed by a successful library strategy gives a success response with
\* capture_method LIBRARY_FALLBACK, zero pushNode failures and no resource
\* timeouts, whatever the subprocess had written before.
C3_TimeoutFallbackReport ==
  \A r \in Reqs :
    LET s == req[r] IN
    (/\ variant = "CLI"
     /\ s.promise = "rejected"
     /\ s.pError = TimeoutMessage("CLI")
     /\ s.resp.success)
    => /\ s.resp.capture_method = "LIBRARY_FALLBACK"
       /\ s.resp.errors.push = 0
       /\ s.resp.errors.timeouts = <<>>

C3_Witness ==
  \E r \in Reqs :
    /\ variant = "CLI"
    /\ req[r].pError = TimeoutMessage("CLI")
    /\ req[r].resp.success
    /\ parseRealLighthouseErrors(req[r].stderrOutput).push > 0
    /\ req[r].resp.capture_method = "LIBRARY_FALLBACK"

\* C4: when the library strategy fails after the CLI strategy failed, the one
\* response is a failure (status 500, success false) carrying the most recent
\* error, which is not the CLI strategy's error, and the request's url.
C4_LibraryFailureReported ==
  \A r \in Reqs :
    LET s == req[r] IN
    (s.pc = "done" /\ s.libStarts = 1 /\ s.exc # "none")
    => /\ ~s.resp.success
       /\ s.resp.status = 500
       /\ s.resp.error = s.exc
       /\ s.resp.error # s.pError
       /\ s.resp.url = s.url
       /\ s.url # ""
       /\ s.nResp = 1

C4_Witness ==
  \E r \in Reqs :
    /\ req[r].pc = "done"
    /\ req[r].pError = "spawn error"
    /\ req[r].exc = "lighthouse error"
    /\ req[r].resp.error = "lighthouse error"

(***************************************************************************)
(* Process runner                                                          *)
(***************************************************************************)
\* C5: when the deadline timer expires on a run that is still pending, kill is
\* called (the signal goes to the subprocess if it still runs) and the run is
\* rejected with the timeout error; it never resolves afterwards.
C5_TimeoutKillsAndRejects ==
  \A r \in Reqs :
    LET s == req[r] IN
    (s.timer = "fired" /\ ~s.firedLate)
    => /\ s.promise = "rejected"
       /\ s.pError = TimeoutMessage(variant)
       /\ s.killCalls = 1
       /\ s.settledAlive => s.sigterm

C5_Witness ==
  \E r \in Reqs :
    /\ req[r].timer = "fired"
    /\ ~req[r].firedLate
    /\ req[r].sigterm
    /\ req[r].closeHandled
    /\ JsonParses(req[r].jsonOutput)
    /\ req[r].promise = "rejected"

\* C6: the deadline timer's callback never runs after the close or error
\* listener has run.
C6_TimerNeverFiresAfterClose == \A r \in Reqs : ~req[r].firedLate

\* C7: the subprocess is not running at the moment the run's promise settles,
\* and the library strategy never starts while the subprocess runs.
C7_NoLiveSubprocessAtSettle ==
  \A r \in Reqs : ~req[r].settledAlive /\ ~req[r].libStartAlive

\* C8: stdout is parsed only once the subprocess has ended and every chunk it
\* wrote has been delivered; a run that resolved did so in the close listener
\* of an ended subprocess, not after the deadline had rejected it.
C8_ParseOnlyAfterClose ==
  \A r \in Reqs :
    LET s == req[r] IN
    /\ ~s.parsedPartial
    /\ s.promise = "resolved"
       => /\ s.proc = "exited"
          /\ s.closeHandled
          /\ s.outPipe = <<>>
          /\ ~s.settledAlive
          /\ s.timer = "fired" => s.firedLate

C8_Witness ==
  \E r \in Reqs :
    /\ req[r].promise = "resolved"
    /\ req[r].nWritten = 2
    /\ req[r].stderrOutput = <<>>
    /\ req[r].jsonOutput = <<"{", "b", "}">>

\* stdout holds a report the variant's close listener can parse
Parseable(v, out) ==
  IF v = "CLI"
  THEN IndexOf(out, "{") # 0 /\ LastIndexOf(out, "}") # 0 /\ JsonParses(JsonPart(out))
  ELSE JsonParses(out)

\* C9: a subprocess that closes before the deadline with a parseable report on
\* stdout makes the run resolve with that report and the error report, for
\* every exit code; the library strategy is not started.
C9_ExitCodeIgnored ==
  \A r \in Reqs :
    LET s == req[r] IN
    (/\ s.closeHandled
     /\ s.proc = "exited"
     /\ ~(s.timer = "fired" /\ ~s.firedLate)
     /\ Parseable(variant, s.jsonOutput))
    => /\ s.promise = "resolved"
       /\ s.pValue.lhr = IF variant = "CLI" THEN JsonValue(JsonPart(s.jsonOutput))
                         ELSE JsonValue(s.jsonOutput)
       /\ s.pValue.errors = IF variant = "CLI" THEN parseRealLighthouseErrors(s.stderrOutput)
                            ELSE s.lhErrors
       /\ s.libStarts = 0

C9_Witness ==
  \E r \in Reqs :
    /\ req[r].exitCode = "1"
    /\ req[r].promise = "resolved"
    /\ req[r].pValue.errors.push = 1
    /\ req[r].resp.success

(***************************************************************************)
(* Scoring on its own: the handler stands after DOM extraction with the    *)
(* metrics and the error report drawn from samples around every threshold  *)
(* and cap of the penalty table.                                           *)
(***************************************************************************)
NodeSamples == {0, 1500, 1501, 1540, 1550, 2500, 4500, 100000}
DepthSamples == {0, 32, 33, 42, 500}
ChildSamples == {0, 60, 61, 85, 500}
PushSamples == {0, 1, 5, 12, 13, 250, 251}

MetricSamples ==
  { [domNodes |-> n, domDepth |-> d, maxChildren |-> c] :
      n \in NodeSamples, d \in DepthSamples, c \in ChildSamples }

SampleTimeouts(k) == [i \in 1..k |-> [kind |-> "Timeout detected", text |-> <<"timeout">>]]

ErrorSamples ==
  { [push |-> p, img |-> i, timeouts |-> SampleTimeouts(k), rend |-> b,
     raw |-> <<>>, warnings |-> <<>>, method |-> "none"] :
      p \in PushSamples, i \in {NullImg, ImgPlainMsg}, k \in 0..MaxTimeouts, b \in BOOLEAN }

\* raw and warnings are not read by the scoring step and stay empty
AtScoring(m, e) ==
  [NewRequest EXCEPT !.pc = "scoring", !.url = "https://a.example", !.cliStarts = 1,
                     !.dom = m, !.lighthouseErrors = e]

InitScore ==
  /\ variant \in Variants
  /\ \E m \in MetricSamples, e \in ErrorSamples : req = [r \in Reqs |-> AtScoring(m, e)]

Score(r) ==
  /\ req[r].pc = "scoring"
  /\ Set(r, ScoreAndRespond(variant, req[r]))

NextScore == \E r \in Reqs : Score(r)

SpecScore == InitScore /\ [][NextScore]_vars

\* C10: for all non-negative DOM metrics and every error report the score in
\* the success response is an integer between 0 and 100.
C10_ScoreInRange ==
  \A r \in Reqs : req[r].resp.success => req[r].resp.score \in 0..100

C10_Witness ==
  \E r \in Reqs :
    /\ req[r].resp.success
    /\ req[r].resp.score = 0
    /\ DblLess(RawScore(variant, req[r].dom, req[r].lighthouseErrors), DblInt(0))

\* the error report holds no finding the scoring step penalises
NoFindings(e) == e.push = 0 /\ e.img = NullImg /\ ~e.rend /\ e.timeouts = <<>>

\* C11: with nodeCount <= 1500, maxDepth <= 32, maxChildren <= 60 and an
\* error report without pushNode failures, image-gathering failure, exceeded
\* rendering budget and resource timeouts, the scoring step gives score 100,
\* risk tier LOW and an empty penalty list.
C11_NoPenaltyGivesFullScore ==
  \A r \in Reqs :
    LET s == req[r] IN
    (/\ s.resp.success
     /\ s.dom.domNodes <= 1500
     /\ s.dom.domDepth <= 32
     /\ s.dom.maxChildren <= 60
     /\ NoFindings(s.lighthouseErrors))
    => /\ s.resp.score = 100
       /\ s.resp.risk = "LOW"
       /\ s.resp.penalties = <<>>

C11_Witness ==
  \E r \in Reqs :
    /\ req[r].resp.success
    /\ req[r].dom = [domNodes |-> 1500, domDepth |-> 32, maxChildren |-> 60]
    /\ NoFindings(req[r].lighthouseErrors)
    /\ req[r].resp.score = 100

\* the penalty table in exact arithmetic, in hundredths of a point
TablePenaltySum(v, m, e) ==
  (IF m.domNodes > 1500 THEN Min(3000, m.domNodes - 1500) ELSE 0)
  + (IF m.domDepth > 32 THEN Min(2000, (m.domDepth - 32) * 200) ELSE 0)
  + (IF m.maxChildren > 60 THEN Min(2500, (m.maxChildren - 60) * 100) ELSE 0)
  + (IF e.push > 0 THEN Min(2500, IF v = "CLI" THEN e.push * 200 ELSE e.push * 10) ELSE 0)
  + (IF e.img # NullImg THEN 1500 ELSE 0)
  + (IF e.rend THEN 1000 ELSE 0)
  + (IF Len(e.timeouts) > 0 THEN Min(2000, Len(e.timeouts) * 500) ELSE 0)

\* max(0, round(100 - S)), halves rounding up
TableScore(v, m, e) == Max(0, (10000 - TablePenaltySum(v, m, e) + 50) \div 100)

TableCap(label) ==
  CASE label = "DOM nodes" -> 30
    [] label = "DOM depth" -> 20
    [] label = "Max children" -> 25
    [] label = "DOM pushNode failures" -> 25
    [] label = "Image gathering budget exceeded" -> 15
    [] label = "Rendering budget exceeded" -> 10
    [] label = "Resource timeouts" -> 20

\* C12: the score equals max(0, round(100 - S)), S being the sum of
\* min(cap, formula) over the conditions of the penalty table that hold; no
\* applied penalty exceeds its cap; nodeCount = 2500 with no other condition
\* holding gives a node penalty of 10 and a score of 90.
C12_ScoreIsRoundedCappedSum ==
  \A r \in Reqs :
    LET s == req[r] IN
    s.resp.success =>
      /\ s.resp.score = TableScore(variant, s.dom, s.lighthouseErrors)
      /\ \A i \in 1..Len(s.resp.penalties) :
           ~DblLess(DblInt(TableCap(s.resp.penalties[i].label)), s.resp.penalties[i].amount)
      /\ (/\ s.dom.domNodes = 2500
          /\ s.dom.domDepth <= 32
          /\ s.dom.maxChildren <= 60
          /\ NoFindings(s.lighthouseErrors))
         => /\ s.resp.penalties = << [label |-> "DOM nodes", amount |-> DblInt(10)] >>
            /\ s.resp.score = 90

\* C13: the risk tier of a success response is LOW exactly when the final
\* score is at least 80, MEDIUM exactly when it is at least 60 and below 80,
\* HIGH exactly when it is below 60.
C13_RiskFromFinalScore ==
  \A r \in Reqs :
    LET p == req[r].resp IN
    p.success =>
      /\ p.risk = "LOW" <=> p.score >= 80
      /\ p.risk = "MEDIUM" <=> (p.score >= 60 /\ p.score < 80)
      /\ p.risk = "HIGH" <=> p.score < 60

C13_Witness ==
  \E r \in Reqs :
    /\ req[r].resp.success
    /\ req[r].resp.score = 60
    /\ req[r].resp.risk = "MEDIUM"
    /\ DblLess(RawScore(variant, req[r].dom, req[r].lighthouseErrors), DblInt(60))

(***************************************************************************)
(* Error extraction on its own: the subprocess has written a report to     *)
(* stdout and a diagnostic text to stderr and has ended; the chunks wait   *)
(* in the pipes.  The text is a head of special lines followed by runs of  *)
(* pushNode lines and of other error lines, cut into at most two chunks.   *)
(***************************************************************************)
MaxCut == 3        \* the stderr text is cut after at most this many words

PushLine == <<"DOM.pushNodeByPathToFrontend", "failed", "nl">>
OtherLine == <<"ERR:error", "w", "nl">>
ImageLine(ratio) ==
  <<"ImageElements:warn", "Reached", "gathering", "budget",
    "Skipped extra details", "for", ratio, "nl">>
ImagePlainLine == <<"ImageElements:warn", "gathering", "budget", "nl">>

\* an image-budget warning that names a timeout, and a line that names the
\* image gatherer and a timeout without being an image-budget warning
ImageTimeoutLine == <<"ImageElements:warn", "gathering", "budget", "timeout", "nl">>
GathererTimeoutLine == <<"ImageElements", "timeout", "nl">>

HeadTexts ==
  { <<>>,
    ImageLine("69/86"),
    ImageLine("69/86") \o ImageLine("3/4"),
    ImageLine("69/86") \o ImagePlainLine,
    <<"Timeout", "5s", "nl">>,
    <<"nl", "Timeout", "w">>,
    ImageTimeoutLine,
    GathererTimeoutLine }

PushLineSamples == {0, 1, 10, 12}
OtherLineSamples == {0, 1, 11, 21}

RECURSIVE Repeat(_, _)
Repeat(line, n) == IF n = 0 THEN <<>> ELSE line \o Repeat(line, n - 1)

SampleText(hd, p, q, pushFirst) ==
  IF pushFirst THEN hd \o Repeat(PushLine, p) \o Repeat(OtherLine, q)
  ELSE hd \o Repeat(OtherLine, q) \o Repeat(PushLine, p)

\* the 'data' chunks a text arrives in when it is cut after c words
ChunksOf(text, c) ==
  IF text = <<>> THEN <<>>
  ELSE IF c = 0 \/ c >= Len(text) THEN <<text>>
  ELSE <<SubSeq(text, 1, c), SubSeq(text, c + 1, Len(text))>>

\* the request waits for the run; the subprocess has ended with its output
\* still in the pipes
AfterExit(errChunks) ==
  [runLighthouseCLI(NewRequest, "https://a.example", TRUE) EXCEPT
     !.proc = "exited", !.exitCode = "0",
     !.outPipe = << <<"{", "b", "}">> >>,
     !.errPipe = errChunks,
     !.nWritten = Len(errChunks) + 1]

InitExtract ==
  /\ variant \in Variants
  /\ \E hd \in HeadTexts, p \in PushLineSamples, q \in OtherLineSamples,
        pushFirst \in BOOLEAN, c \in 0..MaxCut :
       req = [r \in Reqs |-> AfterExit(ChunksOf(SampleText(hd, p, q, pushFirst), c))]

NextExtract ==
  \E r \in Reqs :
    \/ StdoutData(r)
    \/ StderrData(r)
    \/ CloseEvent(r)
    \/ ContinueCLI(r)

SpecExtract == InitExtract /\ [][NextExtract]_vars

\* the error report a request is building or has built
ErrorsOf(v, s) ==
  IF v = "ENH" THEN s.lhErrors
  ELSE IF s.promise = "resolved" THEN s.pValue.errors
  ELSE EmptyRealErrors

\* C14: the sample-line list of the error report (raw_stderr_lines of
\* parseRealLighthouseErrors, raw_error_log of the stderr handler of
\* runLighthouseWithErrorCapture) never holds more than 20 lines, however
\* many diagnostic lines the subprocess emits.
C14_SampleLinesCapped ==
  \A r \in Reqs :
    /\ Len(ErrorsOf(variant, req[r]).raw) <= 20
    /\ req[r].resp.success => Len(req[r].resp.errors.raw) <= 20

RECURSIVE CountLines(_, _)
CountLines(lines, marker) ==
  IF lines = <<>> THEN 0
  ELSE (IF HasTok(Head(lines), marker) THEN 1 ELSE 0) + CountLines(Tail(lines), marker)

\* C15: for a diagnostic text with N lines matching the DOM-traversal-failure
\* marker the extracted dom_pushnode_failures is N, and at most 10 of those
\* lines are kept in the sample log.
C15_PushNodeCountExact ==
  \A r \in Reqs :
    LET s == req[r] IN
    s.promise = "resolved" =>
      /\ s.pValue.errors.push
           = CountLines(SplitLines(s.stderrOutput), "DOM.pushNodeByPathToFrontend")
      /\ CountLines(s.pValue.errors.raw, "DOM.pushNodeByPathToFrontend") <= 10

\* the ratio of the first image-budget warning line that carries one
RECURSIVE FirstImageRatio(_)
FirstImageRatio(lines) ==
  IF lines = <<>> THEN "none"
  ELSE IF HasTok(Head(lines), "ImageElements:warn") /\ HasRatio(Head(lines))
    THEN FirstRatio(Head(lines))
  ELSE FirstImageRatio(Tail(lines))

\* C16: image_gathering_failures, once set from an image-budget warning line
\* with an N/M ratio, is not changed by a later image-budget warning line: the
\* final value is built from the first such line of the text.
C16_FirstImageMatchWins ==
  \A r \in Reqs :
    LET s == req[r]
        first == FirstImageRatio(SplitLines(s.stderrOutput))
    IN (s.promise = "resolved" /\ first # "none")
       => s.pValue.errors.img = <<first, "images skipped - gathering budget exceeded">>

\* C17: the error report of the streaming stderr handler equals the one
\* obtained by running its rules once over the lines of the whole text,
\* however the text was cut into chunks.
C17_ChunkCutIndependent ==
  \A r \in Reqs :
    LET s == req[r] IN
    (variant = "ENH" /\ s.promise = "resolved")
    => s.pValue.errors = FoldStreamLines(EmptyStreamErrors, SplitLines(s.stderrOutput))

(***************************************************************************)
(* DOM extraction on its own: the CLI strategy could not be spawned, the   *)
(* library strategy has returned a report and the handler waits for        *)
(* chrome.kill().  The report is drawn from samples of every shape the     *)
(* dom-size audit is read in.                                              *)
(***************************************************************************)
TopValues == {Undef, NullVal, Num(0), Num(1600), Num(3000)}
NodeItemValues == {Undef, NullVal, Num(0), Num(2500), Obj(0), Obj(2500)}
OtherItemValues == {Undef, NullVal, Num(0), Obj(0), Num(40), Obj(40), Obj(70)}

ItemSamples ==
  {<<>>}
  \cup {<<a>> : a \in NodeItemValues}
  \cup {<<a, b, c>> : a \in NodeItemValues, b \in OtherItemValues, c \in OtherItemValues}

ReportSamples ==
  {EmptyObject, NoDomSize}
  \cup {[Report(nv, <<>>) EXCEPT !.details = d] :
          nv \in TopValues, d \in {"missing", "noitems"}}
  \cup {Report(nv, items) : nv \in TopValues, items \in ItemSamples}

AtLibraryReport(v, lhr) ==
  LET s0 == runLighthouseCLI(NewRequest, "https://a.example", FALSE)
      s1 == StartLibrary(OnError(v, s0))
      s2 == [s1 EXCEPT !.pc = "awaitLib", !.chrome = "alive"]
  IN AfterLibrary(v, s2, [threw |-> FALSE, lhr |-> lhr])

InitDom ==
  /\ variant \in Variants
  /\ \E lhr \in ReportSamples : req = [r \in Reqs |-> AtLibraryReport(variant, lhr)]

NextDom ==
  \E r \in Reqs :
    \/ KillSettles(r)
    \/ CloseEvent(r)
    \/ TimerFire(r)

SpecDom == InitDom /\ [][NextDom]_vars

\* the handler holds a report and the strategy that gave it has ended well
ReportObtained(s) == s.runnerResult.kind = "object" /\ s.exc # "chrome kill error"

\* no source of the report gives a number for any of the three metrics
NoNumericSource(lhr) ==
  \/ ~lhr.audits
  \/ ~lhr.dom
  \/ /\ lhr.nv.t # "num"
     /\ \/ lhr.details # "items"
        \/ \A i \in 1..3 : Item(lhr.items, i).t \notin {"num", "obj"}

\* C18: DOM-metric extraction never raises: with a report whose audits map or
\* dom-size entry is missing, or whose details and items are missing, null or
\* non-numeric, the handler gives all-zero metrics and goes on to scoring and
\* a success response, never to the failed (500) outcome.
C18_DomExtractionNeverRaises ==
  \A r \in Reqs :
    LET s == req[r] IN
    (s.pc = "done" /\ ReportObtained(s))
    => /\ s.resp.success
       /\ NoNumericSource(s.runnerResult) => s.resp.dom = NoMetrics

\* the dom-size audit's top-level numericValue, 0 when absent
TopLevelNodes(lhr) == IF lhr.dom /\ lhr.nv.t = "num" THEN lhr.nv.v ELSE 0

\* the value item[0] proposes, directly or under a nested value; 0 when absent
ItemNodes(lhr) ==
  IF lhr.dom /\ lhr.details = "items" /\ Item(lhr.items, 1).t \in {"num", "obj"}
  THEN Item(lhr.items, 1).v ELSE 0

\* C19: the extracted node count is the maximum of the dom-size audit's
\* top-level numericValue (0 when absent) and the value of item[0] (in either
\* shape, when present); it is never lower than the top-level value.
C19_NodeCountIsMaximum ==
  \A r \in Reqs :
    LET s == req[r] IN
    s.resp.success =>
      /\ s.resp.dom.domNodes = Max(TopLevelNodes(s.runnerResult), ItemNodes(s.runnerResult))
      /\ s.resp.dom.domNodes >= TopLevelNodes(s.runnerResult)

C19_Witness ==
  \E r \in Reqs :
    /\ req[r].resp.success
    /\ TopLevelNodes(req[r].runnerResult) = 3000
    /\ ItemNodes(req[r].runnerResult) = 2500
    /\ req[r].resp.dom.domNodes = 3000

(***************************************************************************)
(* Two requests at once.  Each has called the runner.  The subprocess of   *)
(* the first runs, that of the second has ended, each with its output      *)
(* waiting in the pipes; or a subprocess could not be spawned.  The two    *)
(* subprocesses write different texts.                                     *)
(***************************************************************************)
Pair == {1, 2}

PairUrl(r) == IF r = 1 THEN "https://a.example" ELSE "https://b.example"

\* what the subprocess of request r writes
PairStdout(r) == IF r = 1 THEN <<"{", "b", "}">> ELSE <<"{", "b0", "}">>
PairStderr(r) == IF r = 1 THEN PushLine ELSE <<"Timeout", "5s", "nl">>

PairStart(r, how) ==
  IF how = "nospawn" THEN runLighthouseCLI(NewRequest, PairUrl(r), FALSE)
  ELSE [runLighthouseCLI(NewRequest, PairUrl(r), TRUE) EXCEPT
          !.proc = how,
          !.exitCode = IF how = "exited" THEN "0" ELSE @,
          !.outPipe = <<PairStdout(r)>>, !.errPipe = <<PairStderr(r)>>, !.nWritten = 2]

InitPair ==
  /\ variant \in Variants
  /\ \E how1 \in {"running", "nospawn"}, how2 \in {"exited", "nospawn"} :
       req = [r \in Pair |-> PairStart(r, IF r = 1 THEN how1 ELSE how2)]

NextPair ==
  \E r \in Pair :
    \/ ProcExit(r)
    \/ StdoutData(r)
    \/ StderrData(r)
    \/ CloseEvent(r)
    \/ ErrorEvent(r)
    \/ TimerFire(r)
    \/ ContinueCLI(r)
    \/ LaunchSettles(r)
    \/ LibrarySettles(r)
    \/ KillSettles(r)

SpecPair == InitPair /\ [][NextPair]_vars

RECURSIVE Flatten(_)
Flatten(chunks) == IF chunks = <<>> THEN <<>> ELSE Head(chunks) \o Flatten(Tail(chunks))

\* the state of request r shows the events of its own subprocess or library
\* call only
OwnEventsOnly(r) ==
  LET s == req[r]
      spawned == s.proc # "nospawn"
  IN
  /\ s.url = PairUrl(r)
  /\ s.jsonOutput \o Flatten(s.outPipe) = (IF spawned THEN PairStdout(r) ELSE <<>>)
  /\ s.stderrOutput \o Flatten(s.errPipe) = (IF spawned THEN PairStderr(r) ELSE <<>>)
  /\ (s.killCalls > 0 \/ s.sigterm) => s.timer = "fired"
  /\ s.promise = "rejected" =>
       \/ s.pError = TimeoutMessage(variant) /\ s.timer = "fired"
       \/ s.pError = "spawn error" /\ ~spawned
       \/ s.closeHandled /\ ~Parseable(variant, s.jsonOutput)
  /\ s.promise = "resolved" =>
       /\ s.pValue.lhr = JsonValue(PairStdout(r))
       /\ s.pValue.errors.push = (IF r = 1 THEN 1 ELSE 0)
       /\ Len(s.pValue.errors.timeouts) = (IF r = 1 THEN 0 ELSE 1)
  /\ s.resp.success =>
       /\ s.resp.url = PairUrl(r)
       /\ s.resp.dom = ExtractDom(s.runnerResult)
       /\ s.resp.errors = s.lighthouseErrors
       /\ s.resp.score = CrawlabilityScore(variant, s.resp.dom, s.resp.errors)
       /\ s.libStarts = 0 =>
            /\ s.runnerResult = JsonValue(PairStdout(r))
            /\ s.resp.errors = s.pValue.errors
            /\ variant = "CLI" => s.resp.capture_method = "CLI_REAL_ERRORS"
       /\ s.libStarts = 1 =>
            /\ s.resp.errors.push = 0
            /\ s.resp.errors.timeouts = <<>>
            /\ variant = "CLI" => s.resp.capture_method = "LIBRARY_FALLBACK"

\* C20: two requests processed at once do not interfere: in every
\* interleaving of their stream, close, error and timer events each request's
\* error report, DOM metrics, score and capture method come from the events
\* of its own subprocess or library call, and a step of one request (its
\* timeout, its failure) leaves the other request's state, subprocess
\* included, as it was.
C20_NoInterference ==
  /\ [](\A r \in Pair : OwnEventsOnly(r))
  /\ [][\A a \in Pair, b \in Pair : a # b => (req'[a] = req[a] \/ req'[b] = req[b])]_vars

C20_Witness ==
  /\ req[1].pc = "done"
  /\ req[1].timer = "fired"
  /\ req[1].sigterm
  /\ req[1].pError = TimeoutMessage(variant)
  /\ req[1].resp.status = 500
  /\ req[2].pc = "done"
  /\ req[2].resp.success
  /\ req[2].libStarts = 0
  /\ Len(req[2].resp.errors.timeouts) = 1
  /\ ~req[2].sigterm

(***************************************************************************)
(* JSON location on its own: the subprocess has ended; its stdout, still   *)
(* in the pipe, is one JSON document with non-JSON text before and after   *)
(* it, cut into at most two chunks.  Nothing was written to stderr.        *)
(***************************************************************************)
DocTexts == { <<"{", "b", "}">>, <<"{", "}">>, <<"{", "b0", "{", "}", "}">> }

\* text that is not JSON; some of it holds brace characters
NoiseTexts ==
  { <<>>, <<"w">>, <<"log", "nl">>, <<"log", "{", "log", "}", "nl">>, <<"}", "log", "{">> }

AfterExitWith(outChunks) ==
  [AfterExit(<<>>) EXCEPT !.outPipe = outChunks, !.nWritten = Len(outChunks)]

InitJson ==
  /\ variant \in Variants
  /\ \E pre \in NoiseTexts, doc \in DocTexts, post \in NoiseTexts, c \in 0..MaxCut :
       req = [r \in Reqs |-> AfterExitWith(ChunksOf(pre \o doc \o post, c))]

NextJson ==
  \E r \in Reqs :
    \/ StdoutData(r)
    \/ CloseEvent(r)
    \/ TimerFire(r)
    \/ ContinueCLI(r)
    \/ LaunchSettles(r)

SpecJson == InitJson /\ [][NextJson]_vars

\* the reports of the documents out can be read as: noise, document, noise
DocumentsIn(out) ==
  { JsonValue(doc) : doc \in { d \in DocTexts :
       \E pre \in NoiseTexts, post \in NoiseTexts : out = pre \o d \o post } }

\* C21: when stdout is exactly one valid JSON document preceded and/or
\* followed by non-JSON text, which may hold brace characters, the close
\* listener of a run that did not time out locates the document, parses it
\* and resolves with its report; the library strategy is not started.
C21_DocumentLocatedInNoise ==
  \A r \in Reqs :
    LET s == req[r] IN
    (s.closeHandled /\ ~(s.timer = "fired" /\ ~s.firedLate))
    => /\ s.promise = "resolved"
       /\ s.pValue.lhr \in DocumentsIn(s.jsonOutput)
       /\ s.libStarts = 0

(***************************************************************************)
(* Subprocess termination.  Node's event loop runs every listener, timer   *)
(* callback and await continuation that is due; the subprocess is under no *)
(* such obligation: it may go on running whatever signal it was sent,      *)
(* short of a forced kill.                                                  *)
(***************************************************************************)
FairLoopSpec ==
  /\ Spec
  /\ \A r \in Reqs :
       /\ WF_vars(StdoutData(r))
       /\ WF_vars(StderrData(r))
       /\ WF_vars(CloseEvent(r))
       /\ WF_vars(ErrorEvent(r))
       /\ WF_vars(TimerFire(r))
       /\ WF_vars(ContinueCLI(r))
       /\ WF_vars(LaunchSettles(r))
       /\ WF_vars(LibrarySettles(r))
       /\ WF_vars(KillSettles(r))

\* C22: a subprocess that still runs when the deadline expires is eventually
\* terminated, by a forced kill if it does not exit on the termination
\* signal: it does not stay alive forever after a timeout.
C22_TimedOutSubprocessEnds ==
  \A r \in Reqs :
    (req[r].timer = "fired" /\ req[r].proc = "running") ~> (req[r].proc # "running")

(***************************************************************************)
(* The timeout rule                                                        *)
(***************************************************************************)
\* the line is matched by the variant's image-budget rule
ImageBudgetMatched(v, l) ==
  IF v = "CLI" THEN IsImageBudgetLine(l)
  ELSE HasWord(l, "ImageElements:warn") /\ Includes(l, <<"gathering", "budget">>)

\* the non-empty lines that name a timeout and are no image-budget warning
RECURSIVE TimeoutLinesIn(_, _)
TimeoutLinesIn(v, lines) ==
  IF lines = <<>> THEN 0
  ELSE LET l == Trim(Head(lines)) IN
       (IF /\ l # <<>>
           /\ (HasWord(l, "timeout") \/ HasWord(l, "Timeout"))
           /\ ~ImageBudgetMatched(v, l)
        THEN 1 ELSE 0)
       + TimeoutLinesIn(v, Tail(lines))

\* C23: a line matched as an image-budget warning adds no entry to
\* resource_timeouts, even when it names a timeout; every other non-empty
\* line holding 'timeout' or 'Timeout' adds exactly one entry.
C23_TimeoutRuleSkipsImageLines ==
  \A r \in Reqs :
    LET s == req[r] IN
    s.promise = "resolved" =>
      Len(s.pValue.errors.timeouts) = TimeoutLinesIn(variant, SplitLines(s.stderrOutput))

(***************************************************************************)
(* Two runs side by side.  Both subprocesses have ended after writing the  *)
(* same chunks to stderr; what they wrote to stdout differs, and so does   *)
(* the order in which the chunks of the two streams are delivered.         *)
(***************************************************************************)
RunStdouts ==
  { << <<"{", "b", "}">> >>,
    << <<"{", "b">>, <<"}">> >>,
    << <<"{", "b", "}">>, <<"timeout">> >>,
    << <<"w">>, <<"{", "b", "}">> >> }

RunStderrs ==
  { <<>>,
    << PushLine >>,
    << <<"Timeout", "5s", "nl">>, ImageLine("69/86") >> }

RunStart(outChunks, errChunks) ==
  [AfterExitWith(outChunks) EXCEPT
     !.errPipe = errChunks, !.nWritten = Len(outChunks) + Len(errChunks)]

InitRuns ==
  /\ variant \in Variants
  /\ \E err \in RunStderrs, out1 \in RunStdouts, out2 \in RunStdouts :
       req = [r \in Pair |-> RunStart(IF r = 1 THEN out1 ELSE out2, err)]

NextRuns ==
  \E r \in Pair :
    \/ StdoutData(r)
    \/ StderrData(r)
    \/ CloseEvent(r)
    \/ ContinueCLI(r)

SpecRuns == InitRuns /\ [][NextRuns]_vars

\* the four findings of an error report
Findings(e) == <<e.push, e.img, e.timeouts, e.rend>>

\* C24: the error report of the CLI strategy depends on stderr only: two runs
\* with the same stderr content whose stdout content and chunk interleaving
\* differ resolve with the same dom_pushnode_failures,
\* image_gathering_failures, resource_timeouts and rendering_budget_exceeded.
C24_ReportDependsOnStderrOnly ==
  (req[1].promise = "resolved" /\ req[2].promise = "resolved")
  => Findings(req[1].pValue.errors) = Findings(req[2].pValue.errors)

(***************************************************************************)
(* The penalty list                                                        *)
(***************************************************************************)
LabelOrder ==
  << "DOM nodes", "DOM depth", "Max children", "DOM pushNode failures",
     "Image gathering budget exceeded", "Rendering budget exceeded", "Resource timeouts" >>

\* the condition of the penalty table that goes with a label
ConditionHolds(label, m, e) ==
  CASE label = "DOM nodes" -> m.domNodes > 1500
    [] label = "DOM depth" -> m.domDepth > 32
    [] label = "Max children" -> m.maxChildren > 60
    [] label = "DOM pushNode failures" -> e.push > 0
    [] label = "Image gathering budget exceeded" -> e.img # NullImg
    [] label = "Rendering budget exceeded" -> e.rend
    [] label = "Resource timeouts" -> Len(e.timeouts) > 0

LabelsOf(ps) == [i \in 1..Len(ps) |-> ps[i].label]

\* C25: the penalty list holds an entry for a condition of the penalty table
\* exactly when the condition holds, each at most once, in the order DOM
\* nodes, DOM depth, max children, pushNode failures, image gathering,
\* rendering budget, resource timeouts, whatever the penalties' magnitudes.
C25_PenaltyListInTableOrder ==
  \A r \in Reqs :
    LET s == req[r] IN
    s.resp.success =>
      LabelsOf(s.resp.penalties)
        = SelectSeq(LabelOrder, LAMBDA l : ConditionHolds(l, s.dom, s.lighthouseErrors))

C25_Witness ==
  \E r \in Reqs :
    LET ps == req[r].resp.penalties IN
    /\ req[r].resp.success
    /\ Len(ps) = 7
    /\ DblLess(ps[1].amount, ps[2].amount)
    /\ DblLess(ps[7].amount, ps[3].amount)

(***************************************************************************)
(* The two shapes of an item value                                         *)
(***************************************************************************)
\* the same number in the other shape: plain for nested, nested for plain
OtherShape(val) ==
  IF val.t = "num" THEN Obj(val.v) ELSE IF val.t = "obj" THEN Num(val.v) ELSE val

\* the report with item i carrying its number in the other shape
WithOtherShape(lhr, i) ==
  IF i <= Len(lhr.items) THEN [lhr EXCEPT !.items[i] = OtherShape(@)] ELSE lhr

\* C26: for item[0] (node count), item[1] (depth) and item[2] (max children)
\* a candidate carrying the number n as its value and a candidate carrying n
\* under a nested value field give the same extracted metrics, for n >= 0.
C26_BothShapesSameMetric ==
  \A r \in Reqs :
    LET s == req[r] IN
    s.resp.success =>
      \A i \in 1..3 : s.resp.dom = ExtractDom(WithOtherShape(s.runnerResult, i))

C26_Witness ==
  \E r \in Reqs :
    LET s == req[r] IN
    /\ s.resp.success
    /\ s.runnerResult.items = <<Obj(2500), Obj(40), Obj(70)>>
    /\ s.runnerResult.nv = Num(1600)
    /\ s.resp.dom = [domNodes |-> 2500, domDepth |-> 40, maxChildren |-> 70]

(***************************************************************************)
(* Settling once                                                           *)
(***************************************************************************)
Settled(s) == s.promise \in {"resolved", "rejected"}

\* the outcome of the run and what the handler has made of it
Outcome(s) == <<s.promise, s.pValue, s.pError>>
HandlerView(s) ==
  <<s.pc, s.runnerResult, s.lighthouseErrors, s.analysisMethod, s.libStarts, s.chrome,
    s.exc, s.resp, s.nResp>>

\* the step runs the close listener, the error listener or the timer callback
RunnerEventStep(r) ==
  \/ req'[r].closeHandled # req[r].closeHandled
  \/ req'[r].errorHandled # req[r].errorHandled
  \/ req'[r].timer # req[r].timer

\* the listener or callback that decided a settled run has been handled
DecidedByHandledEvent(s) ==
  /\ s.promise = "resolved" => s.closeHandled
  /\ s.promise = "rejected" =>
       \/ s.pError = TimeoutMessage(variant) /\ s.timer = "fired"
       \/ s.pError = "spawn error" /\ s.errorHandled
       \/ s.pError \notin {TimeoutMessage(variant), "spawn error"} /\ s.closeHandled

\* C27: a run settles exactly once: the outcome is that of the first handled
\* among the close event, the error event and the deadline expiry; an event
\* handled after that (a close after the timeout rejection, a timer expiry
\* after a successful close, a close after a spawn error) changes neither the
\* outcome nor anything the handler has made of it.
C27_SettlesExactlyOnce ==
  /\ [](\A r \in Reqs : DecidedByHandledEvent(req[r]))
  /\ [][\A r \in Reqs :
          Settled(req[r]) =>
            /\ Outcome(req'[r]) = Outcome(req[r])
            /\ RunnerEventStep(r) => HandlerView(req'[r]) = HandlerView(req[r])]_vars

C27_Witness ==
  \E r \in Reqs :
    /\ req[r].promise = "resolved"
    /\ req[r].timer = "fired"
    /\ req[r].firedLate
    /\ req[r].killCalls = 1
    /\ req[r].resp.success

(***************************************************************************)
(* The library strategy's browser                                          *)
(***************************************************************************)
\* C28: a browser instance the library strategy has launched is killed before
\* the request's response is sent, after a successful audit call and after
\* one that throws: no response is sent while the browser is alive.
C28_BrowserKilledBeforeResponse ==
  \A r \in Reqs : req[r].nResp > 0 => req[r].chrome # "alive"

(***************************************************************************)
(* Termination of a request                                                *)
(***************************************************************************)
\* what a request needs to go on: the deadline timer fires unless cleared,
\* the await continuations run, and the calls into chrome-launcher and
\* lighthouse settle; nothing is asked of the subprocess or its streams
FairSettleSpec ==
  /\ Spec
  /\ \A r \in Reqs :
       /\ WF_vars(TimerFire(r))
       /\ WF_vars(ContinueCLI(r))
       /\ WF_vars(LaunchSettles(r))
       /\ WF_vars(LibrarySettles(r))
       /\ WF_vars(KillSettles(r))

NextAbove(S, x) ==
  { y \in S : y > x /\ \A z \in S : z > x => y <= z }

\* the inputs that differ from (m, e) in one input, raised to the next sample
RaisedInputs(m, e) ==
  { [m |-> [m EXCEPT !.domNodes = n], e |-> e] : n \in NextAbove(NodeSamples, m.domNodes) }
  \cup { [m |-> [m EXCEPT !.domDepth = d], e |-> e] : d \in NextAbove(DepthSamples, m.domDepth) }
  \cup { [m |-> [m EXCEPT !.maxChildren = c], e |-> e] :
           c \in NextAbove(ChildSamples, m.maxChildren) }
  \cup { [m |-> m, e |-> [e EXCEPT !.push = k]] : k \in NextAbove(PushSamples, e.push) }
  \cup { [m |-> m, e |-> [e EXCEPT !.timeouts = SampleTimeouts(k)]] :
           k \in NextAbove(0..MaxTimeouts, Len(e.timeouts)) }
  \cup (IF e.img = NullImg THEN { [m |-> m, e |-> [e EXCEPT !.img = ImgPlainMsg]] } ELSE {})
  \cup (IF ~e.rend THEN { [m |-> m, e |-> [e EXCEPT !.rend = TRUE]] } ELSE {})

RiskRank(risk) == CASE risk = "LOW" -> 0 [] risk = "MEDIUM" -> 1 [] risk = "HIGH" -> 2

\* C30: the score does not rise and the risk tier does not move towards LOW
\* when nodeCount, maxDepth, maxChildren, the pushNode failure count or the
\* number of resource timeouts is raised, or the image-gathering or the
\* rendering-budget flag is switched on, the other inputs held fixed.
C30_ScoreMonotone ==
  \A r \in Reqs :
    LET s == req[r] IN
    s.resp.success =>
      \A x \in RaisedInputs(s.dom, s.lighthouseErrors) :
        \A above \in {CrawlabilityScore(variant, x.m, x.e)} :
          /\ above <= s.resp.score
          /\ RiskRank(CrawlabilityRisk(above)) >= RiskRank(s.resp.risk)

C30_Witness ==
  \E r \in Reqs :
    LET s == req[r] IN
    /\ s.resp.success
    /\ s.resp.risk = "LOW"
    /\ \E x \in RaisedInputs(s.dom, s.lighthouseErrors) :
         /\ x.m.domNodes > s.dom.domNodes
         /\ CrawlabilityRisk(CrawlabilityScore(variant, x.m, x.e)) = "MEDIUM"

====
